---- MODULE Spec2Model ----
(***************************************************************************)
(* The regression cell In[90] of linear_regression.ipynb as a state        *)
(* machine: one action per statement of the cell.  Real numbers are exact  *)
(* rationals <<numerator, denominator>> in lowest terms with a positive    *)
(* denominator, so every equality below is an equality of exact values;    *)
(* the rounding of IEEE doubles is not represented.                        *)
(***************************************************************************)
EXTENDS Integers, Sequences, FiniteSets, TLC

VARIABLES pc, err, bound, N, D, epsilon, X, beta, noise, y,
          arrays, reg, beta_hat, residuals, rngCalls,
          run, first, source

vars == <<pc, err, bound, N, D, epsilon, X, beta, noise, y,
          arrays, reg, beta_hat, residuals, rngCalls,
          run, first, source>>

(* ------------------------------ bounds --------------------------------- *)

\* largest sample count tried for N
MaxN == 3

\* largest feature count tried for D
MaxD == 1

(* ------------------------- exact rationals ----------------------------- *)

Abs(a) == IF a < 0 THEN -a ELSE a

RECURSIVE GCD(_, _)
GCD(a, b) == IF b = 0 THEN a ELSE GCD(b, a % b)

Rat(n, d) ==
    LET g == GCD(Abs(n), Abs(d))
        s == IF d < 0 THEN -1 ELSE 1
    IN  <<(s * n) \div g, (s * d) \div g>>

RInt(n) == <<n, 1>>
Zero == <<0, 1>>
One == <<1, 1>>

RAdd(p, q) ==
    IF p[1] = 0 THEN q
    ELSE IF q[1] = 0 THEN p
    ELSE IF p[2] = q[2] THEN Rat(p[1] + q[1], p[2])
    ELSE LET g == GCD(p[2], q[2])
         IN  Rat(p[1] * (q[2] \div g) + q[1] * (p[2] \div g), (p[2] \div g) * q[2])

RNeg(p) == <<-p[1], p[2]>>
RSub(p, q) == RAdd(p, RNeg(q))

RMul(p, q) ==
    IF p[1] = 0 \/ q[1] = 0 THEN Zero
    ELSE IF p[2] = 1 /\ q[2] = 1 THEN <<p[1] * q[1], 1>>
    ELSE LET g1 == GCD(Abs(p[1]), q[2])
             g2 == GCD(Abs(q[1]), p[2])
         IN  <<(p[1] \div g1) * (q[1] \div g2), (p[2] \div g2) * (q[2] \div g1)>>

\* q # Zero
RDiv(p, q) == RMul(p, Rat(q[2], q[1]))

RLess(p, q) == p[1] * q[2] < q[1] * p[2]

(* --------------------------- array algebra ----------------------------- *)

\* the array with the elements of s, stored element by element
Array(s) == s \o <<>>

RECURSIVE SumSeq(_)
SumSeq(s) == IF s = <<>> THEN Zero ELSE RAdd(Head(s), SumSeq(Tail(s)))

\* v.dot(w) of two 1-d arrays of the same length
Dot(v, w) == SumSeq(Array([i \in 1..Len(v) |-> RMul(v[i], w[i])]))

\* np.ones((rows, cols))
Ones(rows, cols) == Array([r \in 1..rows |-> Array([c \in 1..cols |-> One])])

\* M.T of an array with `cols` columns
Transpose(M, cols) == Array([c \in 1..cols |-> Array([r \in 1..Len(M) |-> M[r][c]])])

\* M.dot(v) for a 2-d array M and a 1-d array v
MatVec(M, v) == Array([r \in 1..Len(M) |-> Dot(M[r], v)])

\* M.dot(P) for 2-d arrays, P with `cols` columns
MatMul(M, P, cols) ==
    Array([r \in 1..Len(M) |-> Array([c \in 1..cols |->
        SumSeq(Array([k \in 1..Len(P) |-> RMul(M[r][k], P[k][c])]))])])

VecSub(v, w) == Array([i \in 1..Len(v) |-> RSub(v[i], w[i])])

(* ------------- scipy.linalg.lstsq: minimum-norm least squares ---------- *)

\* row r of M replaced by row
SetRow(M, r, row) == [M EXCEPT ![r] = row]

\* one Gauss-Jordan step on pivot (row, col): the pivot row is scaled to a
\* leading 1 and the column is cleared from every other row
Pivot(M, row, col) ==
    LET piv == M[row][col]
        lead == Array([c \in 1..Len(M[row]) |-> RDiv(M[row][c], piv)])
    IN  Array([r \in 1..Len(M) |->
            IF r = row THEN lead
            ELSE IF M[r][col] = Zero THEN M[r]
            ELSE Array([c \in 1..Len(M[r]) |->
                        RSub(M[r][c], RMul(M[r][col], lead[c]))])])

\* reduced row echelon form of the augmented matrix M with n unknowns
RECURSIVE Reduce(_, _, _, _)
Reduce(M, row, col, n) ==
    IF col > n \/ row > Len(M) THEN M
    ELSE LET cand == {r \in row..Len(M) : M[r][col] # Zero}
         IN  IF cand = {} THEN Reduce(M, row, col + 1, n)
             ELSE LET p == CHOOSE r \in cand : \A q \in cand : r <= q
                      swapped == SetRow(SetRow(M, row, M[p]), p, M[row])
                  IN  Reduce(Pivot(swapped, row, col), row + 1, col + 1, n)

\* a solution of the consistent system M x = rhs (M has n columns), with
\* every free unknown set to 0
SolveAny(M, rhs, n) ==
    LET aug == Array([r \in 1..Len(M) |-> Append(M[r], rhs[r])])
        red == Reduce(aug, 1, 1, n)
        lead(r) == {c \in 1..n : red[r][c] # Zero /\ \A k \in 1..(c - 1) : red[r][k] = Zero}
    IN  Array([c \in 1..n |->
            LET rows == {r \in 1..Len(red) : c \in lead(r)}
            IN  IF rows = {} THEN Zero ELSE red[CHOOSE r \in rows : TRUE][n + 1]])

\* the least-squares solution of A x = b of least Euclidean norm (what the
\* SVD driver of lstsq returns, also for a rank-deficient A).  With
\* G = A^T A and c = A^T b, any w with G G w = c gives x = G w: then
\* G x = c (x is a least-squares solution) and x lies in the row space of A
\* (so it is the one of least norm).  A has n columns.
Lstsq(A, b, n) ==
    LET At == Transpose(A, n)
        G == MatMul(At, A, n)
        w == SolveAny(MatMul(G, G, n), MatVec(At, b), n)
    IN  MatVec(G, w)

(* -------------------- sklearn LinearRegression.fit --------------------- *)

\* np.average(v) of a 1-d array with at least one element
Mean(v) == RDiv(SumSeq(v), RInt(Len(v)))

\* as if the intercept were the mean response alone
InterceptNoOffset(y_offset, X_offset, coef) == y_offset

\* LinearRegression._set_intercept
Intercept(y_offset, X_offset, coef) == RSub(y_offset, Dot(X_offset, coef))

\* as if the model were LinearRegression(fit_intercept=False): no centring
\* and an intercept of 0
FitNoIntercept(A, b, n) == [coef_ |-> Lstsq(A, b, n), intercept_ |-> Zero]

\* LinearRegression(fit_intercept=True).fit(A, b): the columns of A and b
\* are centred, the coefficients solve the centred least-squares problem
\* and the intercept restores the means.  A has m >= 1 rows, n columns.
Fit(A, b, n) ==
    LET At == Transpose(A, n)
        X_offset == Array([c \in 1..n |-> Mean(At[c])])
        y_offset == Mean(b)
        Ac == Array([r \in 1..Len(A) |-> VecSub(A[r], X_offset)])
        bc == Array([r \in 1..Len(b) |-> RSub(b[r], y_offset)])
        coef == Lstsq(Ac, bc, n)
    IN  [coef_ |-> coef, intercept_ |-> Intercept(y_offset, X_offset, coef)]

VecAdd(v, w) == Array([i \in 1..Len(v) |-> RAdd(v[i], w[i])])

\* as if the cell read ... + np.random.randn(N), the noise left unscaled
ScaleIgnored(a, v) == v

\* a * v for a scalar a and a 1-d array v
Scale(a, v) == Array([i \in 1..Len(v) |-> RMul(a, v[i])])

\* as if the cell read X[1:,:] = ...: every row but the first is overwritten
SetAllButFirstRow(M, vals) ==
    Array([r \in 1..Len(M) |-> IF r >= 2 THEN Array(vals[r - 1]) ELSE M[r]])

\* M after M[:-1,:] = vals: every row but the last is overwritten
SetAllButLastRow(M, vals) ==
    Array([r \in 1..Len(M) |-> IF r <= Len(M) - 1 THEN Array(vals[r]) ELSE M[r]])

\* as if the cell read beta_hat[0] = ...
SetFirst(v, a) == [v EXCEPT ![1] = a]

\* v after v[-1] = a
SetLast(v, a) == [v EXCEPT ![Len(v)] = a]

(* ------------------------------ inputs --------------------------------- *)

\* the values tried for the literal N of the cell (100 in the notebook)
NValues == -1..MaxN

\* the values tried for the literal D of the cell (1 in the notebook)
DValues == -2..MaxD

\* the values tried for the literal epsilon of the cell (0.5 in the notebook)
EpsilonValues == {Rat(-1, 2), Zero, Rat(1, 2)}

\* the coefficient literal of each length: [1], [2, 1] (the notebook's),
\* [3, 2, 1], ...
BetaOfLen(len) == Array([i \in 1..len |-> RInt(len + 1 - i)])
BetaValues == {BetaOfLen(len) : len \in 1..(MaxD + 1)}

\* values np.random.rand can return: points of [0, 1)
FeatureDraws == {Zero, Rat(1, 2)}

\* values np.random.randn can return
NoiseDraws == {RInt(-1), RInt(1)}

(* --------------------------- the cell In[90] --------------------------- *)

Init ==
    /\ pc = "L110"
    /\ err = "none"
    /\ bound = {}
    /\ N = 0
    /\ D = 0
    /\ epsilon = Zero
    /\ X = <<>>
    /\ beta = <<>>
    /\ noise = <<>>
    /\ y = <<>>
    /\ arrays = <<>>
    /\ reg = [coef_ |-> 0, intercept_ |-> Zero]
    /\ beta_hat = 0
    /\ residuals = <<>>
    /\ rngCalls = <<>>
    /\ run = 1
    /\ first = <<>>
    /\ source = <<>>

\* an exception leaves the cell: nothing after the raising expression runs
Raise(e) ==
    /\ pc' = "raised"
    /\ err' = e
    /\ UNCHANGED <<run, first, source, bound, N, D, epsilon, X, beta, noise, y,
                   arrays, reg, beta_hat, residuals, rngCalls>>

\* N = ...; D = ...; epsilon = ...
Configure ==
    /\ pc = "L110"
    /\ \E n \in NValues, d \in DValues, e \in EpsilonValues :
        /\ N' = n
        /\ D' = d
        /\ epsilon' = e
    /\ bound' = bound \cup {"N", "D", "epsilon"}
    /\ pc' = "L113"
    /\ UNCHANGED <<run, first, source, err, X, beta, noise, y, arrays, reg, beta_hat, residuals, rngCalls>>

\* X = np.ones((D+1, N))
CreateX ==
    /\ pc = "L113"
    /\ IF D + 1 < 0 \/ N < 0
       THEN Raise("NegativeDimensions")
       ELSE /\ X' = Ones(D + 1, N)
            /\ bound' = bound \cup {"X"}
            /\ pc' = "L114"
            /\ UNCHANGED <<run, first, source, err, N, D, epsilon, beta, noise, y,
                           arrays, reg, beta_hat, residuals, rngCalls>>

\* X[:-1,:] = np.random.rand(D, N)
FillX ==
    /\ pc = "L114"
    /\ IF D < 0
       THEN Raise("NegativeDimensions")
       ELSE /\ \E draws \in [1..D -> [1..N -> FeatureDraws]] :
                X' = SetAllButLastRow(X, draws)
            /\ rngCalls' = Append(rngCalls, <<"rand", D * N>>)
            /\ pc' = "L115"
            /\ UNCHANGED <<run, first, source, err, bound, N, D, epsilon, beta, noise, y,
                           arrays, reg, beta_hat, residuals>>

\* beta = np.array([2, 1])
AssignBeta ==
    /\ pc = "L115"
    /\ \E b \in BetaValues : beta' = b
    /\ bound' = bound \cup {"beta"}
    /\ pc' = "L116"
    /\ UNCHANGED <<run, first, source, err, N, D, epsilon, X, noise, y,
                   arrays, reg, beta_hat, residuals, rngCalls>>

\* as if a shape mismatch went unnoticed: the product runs over the
\* entries both operands have
GenerateYNoCheck ==
    /\ pc = "L116"
    /\ LET k == IF Len(beta) < Len(X) THEN Len(beta) ELSE Len(X)
       IN  \E z \in [1..N -> NoiseDraws] :
            /\ noise' = Array(z)
            /\ y' = VecAdd(MatVec(Transpose(SubSeq(X, 1, k), N), SubSeq(beta, 1, k)),
                           Scale(epsilon, z))
    /\ rngCalls' = Append(rngCalls, <<"randn", N>>)
    /\ bound' = bound \cup {"y"}
    /\ pc' = "L118"
    /\ UNCHANGED <<run, first, source, err, N, D, epsilon, X, beta, arrays, reg, beta_hat, residuals>>

\* y = X.T.dot(beta) + epsilon * np.random.randn(N)
GenerateY ==
    /\ pc = "L116"
    /\ IF Len(beta) # Len(X)
       THEN Raise("ShapesNotAligned")
       ELSE /\ \E z \in [1..N -> NoiseDraws] :
                /\ noise' = Array(z)
                /\ y' = VecAdd(MatVec(Transpose(X, N), beta), Scale(epsilon, z))
            /\ rngCalls' = Append(rngCalls, <<"randn", N>>)
            /\ bound' = bound \cup {"y"}
            /\ pc' = "L118"
            /\ UNCHANGED <<run, first, source, err, N, D, epsilon, X, beta,
                           arrays, reg, beta_hat, residuals>>

\* reg = LinearRegression().fit(X.T, y)
FitModel ==
    /\ pc = "L118"
    /\ IF N = 0
       THEN Raise("NoSamples")
       ELSE LET fitted == Fit(Transpose(X, N), y, Len(X))
            IN  /\ arrays' = Append(arrays, fitted.coef_)
                /\ reg' = [coef_ |-> Len(arrays) + 1, intercept_ |-> fitted.intercept_]
                /\ bound' = bound \cup {"reg"}
                /\ pc' = "L119"
                /\ UNCHANGED <<run, first, source, err, N, D, epsilon, X, beta, noise, y,
                               beta_hat, residuals, rngCalls>>

\* as if the cell read beta_hat = np.array(reg.coef_): the copy taken first
BindBetaHatCopy ==
    /\ pc = "L119"
    /\ arrays' = Append(arrays, arrays[reg.coef_])
    /\ beta_hat' = Len(arrays) + 1
    /\ bound' = bound \cup {"beta_hat"}
    /\ pc' = "L120"
    /\ UNCHANGED <<run, first, source, err, N, D, epsilon, X, beta, noise, y,
                   reg, residuals, rngCalls>>

\* beta_hat = reg.coef_
BindBetaHat ==
    /\ pc = "L119"
    /\ beta_hat' = reg.coef_
    /\ bound' = bound \cup {"beta_hat"}
    /\ pc' = "L120"
    /\ UNCHANGED <<run, first, source, err, N, D, epsilon, X, beta, noise, y,
                   arrays, reg, residuals, rngCalls>>

\* beta_hat[-1] = reg.intercept_
WriteIntercept ==
    /\ pc = "L120"
    /\ arrays' = [arrays EXCEPT ![beta_hat] = SetLast(@, reg.intercept_)]
    /\ pc' = "L121"
    /\ UNCHANGED <<run, first, source, err, bound, N, D, epsilon, X, beta, noise, y,
                   reg, beta_hat, residuals, rngCalls>>

\* beta_hat = np.array(beta_hat)
CopyBetaHat ==
    /\ pc = "L121"
    /\ arrays' = Append(arrays, arrays[beta_hat])
    /\ beta_hat' = Len(arrays) + 1
    /\ pc' = "L123"
    /\ UNCHANGED <<run, first, source, err, bound, N, D, epsilon, X, beta, noise, y,
                   reg, residuals, rngCalls>>

\* as if the cell subtracted in place: y -= X.T.dot(beta_hat); residuals = y
ComputeResidualsInPlace ==
    /\ pc = "L123"
    /\ y' = VecSub(y, MatVec(Transpose(X, N), arrays[beta_hat]))
    /\ residuals' = y'
    /\ bound' = bound \cup {"residuals"}
    /\ pc' = "done"
    /\ UNCHANGED <<run, first, source, err, N, D, epsilon, X, beta, noise,
                   arrays, reg, beta_hat, rngCalls>>

\* as if the cell read residuals = y - X.T.dot(beta)
ComputeResidualsFromBeta ==
    /\ pc = "L123"
    /\ residuals' = VecSub(y, MatVec(Transpose(X, N), beta))
    /\ bound' = bound \cup {"residuals"}
    /\ pc' = "done"
    /\ UNCHANGED <<run, first, source, err, N, D, epsilon, X, beta, noise, y,
                   arrays, reg, beta_hat, rngCalls>>

\* as if the cell read residuals = y - (X.T.dot(beta_hat) + reg.intercept_)
ComputeResidualsDoubleIntercept ==
    /\ pc = "L123"
    /\ residuals' = VecSub(y, Array([i \in 1..N |->
            RAdd(Dot(Transpose(X, N)[i], arrays[beta_hat]), reg.intercept_)]))
    /\ bound' = bound \cup {"residuals"}
    /\ pc' = "done"
    /\ UNCHANGED <<run, first, source, err, N, D, epsilon, X, beta, noise, y,
                   arrays, reg, beta_hat, rngCalls>>

\* residuals = y - X.T.dot(beta_hat)
ComputeResiduals ==
    /\ pc = "L123"
    /\ residuals' = VecSub(y, MatVec(Transpose(X, N), arrays[beta_hat]))
    /\ bound' = bound \cup {"residuals"}
    /\ pc' = "done"
    /\ UNCHANGED <<run, first, source, err, N, D, epsilon, X, beta, noise, y,
                   arrays, reg, beta_hat, rngCalls>>

Next ==
    \/ Configure
    \/ CreateX
    \/ FillX
    \/ AssignBeta
    \/ GenerateY
    \/ FitModel
    \/ BindBetaHat
    \/ WriteIntercept
    \/ CopyBetaHat
    \/ ComputeResiduals

Spec == Init /\ [][Next]_vars

(* ------------------- the cell executed a second time ------------------- *)

\* run counts the executions of the cell; first keeps what the first
\* execution read and produced; source is the state np.random is in when
\* an execution starts, given by the values it will yield (<<>> while
\* nothing is known about it).

\* as if np.random were left in the state the first execution ended in
RerunReseeded ==
    /\ pc = "done"
    /\ run = 1
    /\ run' = 2
    /\ first' = [N |-> N, D |-> D, epsilon |-> epsilon, beta |-> beta,
                 X |-> X, y |-> y, beta_hat |-> arrays[beta_hat],
                 intercept_ |-> reg.intercept_, residuals |-> residuals,
                 rngCalls |-> rngCalls]
    /\ source' = <<>>
    /\ pc' = "L110"
    /\ err' = "none"
    /\ bound' = {}
    /\ N' = 0
    /\ D' = 0
    /\ epsilon' = Zero
    /\ X' = <<>>
    /\ beta' = <<>>
    /\ noise' = <<>>
    /\ y' = <<>>
    /\ arrays' = <<>>
    /\ reg' = [coef_ |-> 0, intercept_ |-> Zero]
    /\ beta_hat' = 0
    /\ residuals' = <<>>
    /\ rngCalls' = <<>>

\* the cell is executed again in a fresh interpreter, with np.random put
\* back in the state it had before the first execution: no name is bound,
\* and the source will yield the values it yielded the first time
Rerun ==
    /\ pc = "done"
    /\ run = 1
    /\ run' = 2
    /\ first' = [N |-> N, D |-> D, epsilon |-> epsilon, beta |-> beta,
                 X |-> X, y |-> y, beta_hat |-> arrays[beta_hat],
                 intercept_ |-> reg.intercept_, residuals |-> residuals,
                 rngCalls |-> rngCalls]
    /\ source' = <<Array([r \in 1..D |-> X[r]]), noise>>
    /\ pc' = "L110"
    /\ err' = "none"
    /\ bound' = {}
    /\ N' = 0
    /\ D' = 0
    /\ epsilon' = Zero
    /\ X' = <<>>
    /\ beta' = <<>>
    /\ noise' = <<>>
    /\ y' = <<>>
    /\ arrays' = <<>>
    /\ reg' = [coef_ |-> 0, intercept_ |-> Zero]
    /\ beta_hat' = 0
    /\ residuals' = <<>>
    /\ rngCalls' = <<>>

\* the second execution reads the literals the first one read, and a
\* source in a known state yields the values that state determines
SameSource ==
    /\ run = 2 =>
        /\ "N" \in bound' =>
            /\ N' = first.N
            /\ D' = first.D
            /\ epsilon' = first.epsilon
        /\ "beta" \in bound' => beta' = first.beta
    /\ source # <<>> =>
        /\ Len(rngCalls') >= 1 => \A r \in 1..D' : X'[r] = source[1][r]
        /\ Len(rngCalls') >= 2 => noise' = source[2]

NextTwoRuns ==
    \/ Configure /\ SameSource
    \/ CreateX /\ SameSource
    \/ FillX /\ SameSource
    \/ AssignBeta /\ SameSource
    \/ GenerateY /\ SameSource
    \/ FitModel /\ SameSource
    \/ BindBetaHat /\ SameSource
    \/ WriteIntercept /\ SameSource
    \/ CopyBetaHat /\ SameSource
    \/ ComputeResiduals /\ SameSource
    \/ Rerun

SpecTwoRuns == Init /\ [][NextTwoRuns]_vars

(* ------------------------- derived quantities -------------------------- *)

\* the array the name beta_hat refers to
BetaHatValue == IF beta_hat = 0 THEN <<>> ELSE arrays[beta_hat]

\* the array reg.coef_ refers to
CoefValue == IF reg.coef_ = 0 THEN <<>> ELSE arrays[reg.coef_]

\* the fit stage (lines 118-121) has run to its end
FitDone == pc \in {"L123", "done"}

\* M without row i and column j
Minor(M, i, j) ==
    Array([r \in 1..(Len(M) - 1) |-> Array([c \in 1..(Len(M) - 1) |->
        M[IF r < i THEN r ELSE r + 1][IF c < j THEN c ELSE c + 1]])])

\* determinant of a square matrix, by expansion along the first row
RECURSIVE Det(_)
Det(M) ==
    IF Len(M) = 0 THEN One
    ELSE SumSeq(Array([j \in 1..Len(M) |->
            IF M[1][j] = Zero THEN Zero
            ELSE RMul(IF j % 2 = 1 THEN M[1][j] ELSE RNeg(M[1][j]),
                      Det(Minor(M, 1, j)))]))

\* X^t X of the notebook's formula (samples in rows): the (D+1) x (D+1)
\* matrix X.dot(X.T) of the cell's X
XtX == MatMul(X, Transpose(X, N), Len(X))

\* X^t y of the notebook's formula: X.dot(y) of the cell's X
Xty == MatVec(X, y)

\* the design matrix has full column rank: X^t X is invertible
FullRank == Det(XtX) # Zero

\* sum of squared residuals of the coefficient vector b, Xt being X.T
SSR(Xt, b) ==
    LET res == VecSub(y, MatVec(Xt, b))
    IN  Dot(res, res)

\* b with a added to entry i
Bump(b, i, a) == [b EXCEPT ![i] = RAdd(@, a)]

\* coefficient vectors to compare the fit with: the true coefficients and
\* the fit moved by +-1/2 in one entry
Rivals ==
    {beta} \cup {Bump(BetaHatValue, i, a) :
                    i \in 1..Len(BetaHatValue), a \in {Rat(1, 2), Rat(-1, 2)}}

(* ------------------------------- claims -------------------------------- *)

\* C1: once the fit stage has ended, if X^t X is invertible then beta_hat
\* solves the normal equations (X^t X) beta_hat = X^t y, which is to say it
\* equals (X^t X)^-1 X^t y, and no rival coefficient vector has a smaller
\* sum of squared residuals.  ("P or not FullRank" is "FullRank implies P",
\* written so that the determinant is computed only where P fails.)
C1_NormalEquations ==
    FitDone =>
        \/ /\ Len(BetaHatValue) = D + 1
           /\ MatVec(XtX, BetaHatValue) = Xty
           /\ LET Xt == Transpose(X, N)
                  best == SSR(Xt, BetaHatValue)
              IN  \A b \in Rivals : ~RLess(SSR(Xt, b), best)
        \/ ~FullRank

\* a run that fitted noisy, over-determined data of full rank
C1_Witness ==
    /\ pc = "done"
    /\ FullRank
    /\ D = 1
    /\ N > D + 1
    /\ epsilon # Zero
    /\ \E i \in 1..N : residuals[i] # Zero

\* C2: with epsilon = 0, full column rank and N > D+1, the fitted
\* coefficient vector equals the true one entry by entry (slopes first,
\* intercept last).
C2_NoNoiseRecoversBeta ==
    (FitDone /\ epsilon = Zero /\ N > D + 1) =>
        \/ /\ Len(BetaHatValue) = Len(beta)
           /\ \A i \in 1..Len(beta) : BetaHatValue[i] = beta[i]
        \/ ~FullRank

\* a noiseless run with one feature and three samples of full rank
C2_Witness ==
    /\ pc = "done"
    /\ epsilon = Zero
    /\ FullRank
    /\ D = 1
    /\ N = 3
    /\ beta = <<RInt(2), RInt(1)>>

\* C3: with N = 1 and D = 1 (and a valid epsilon) the run never reaches a state in which an
\* estimated coefficient vector or a residual vector has been produced.
C3_SingularDesignRejected ==
    ("N" \in bound /\ N = 1 /\ D = 1 /\ ~RLess(epsilon, Zero)) =>
        ("beta_hat" \notin bound /\ "residuals" \notin bound)

\* the configuration satisfies N >= 1, D >= 0 and epsilon >= 0
ValidConfig == N >= 1 /\ D >= 0 /\ ~RLess(epsilon, Zero)

\* the generation stage (lines 110-116) failed
GenerationFailed == pc = "raised" /\ "y" \notin bound

\* C4: a configuration violating N >= 1, D >= 0 or epsilon >= 0 never gets
\* a design matrix or a response vector, and the generation stage does not
\* fail for a configuration that satisfies all three.
C4_InvalidParameterRejected ==
    "N" \in bound =>
        /\ ~ValidConfig => ("X" \notin bound /\ "y" \notin bound)
        /\ ValidConfig => ~GenerationFailed

\* C5: for every valid configuration (so for every D >= 0) the true
\* coefficient vector has length D+1.
C5_BetaLength ==
    ("beta" \in bound /\ ValidConfig) => Len(beta) = D + 1

\* the statement X[:-1,:] = np.random.rand(D, N) has run
XFilled == Len(rngCalls) >= 1

\* C6: once generated, for N >= 1 and D >= 0, the design matrix has D+1
\* rows of N entries, its last row is 1 everywhere and every entry of the
\* rows before it (the only ones the random fill writes) lies in [0, 1);
\* this holds in every later state of the run.
C6_DesignMatrixShape ==
    (XFilled /\ N >= 1 /\ D >= 0) =>
        /\ Len(X) = D + 1
        /\ \A r \in 1..(D + 1) : Len(X[r]) = N
        /\ \A c \in 1..N : X[D + 1][c] = One
        /\ \A r \in 1..D : \A c \in 1..N :
            ~RLess(X[r][c], Zero) /\ RLess(X[r][c], One)

\* a finished run whose feature row holds a drawn value different from 0
C6_Witness ==
    /\ pc = "done"
    /\ D = 1
    /\ N = 3
    /\ \E c \in 1..N : X[1][c] # Zero

\* C7 as stated: no array is written after the statement that creates it
\* (X = np.ones(...) creates X, beta_hat = reg.coef_ creates beta_hat).
C7_NeverWrittenAfterCreation ==
    [][ /\ "X" \in bound => X' = X
        /\ "beta" \in bound => beta' = beta
        /\ "y" \in bound => y' = y
        /\ "beta_hat" \in bound => BetaHatValue' = BetaHatValue
        /\ "residuals" \in bound => residuals' = residuals ]_vars

\* C7 as amended: X is written once more by the fill of line 114 and
\* beta_hat once more by the intercept write of line 120; beyond these, no
\* array changes once it exists: X after line 114, beta_hat after line 121,
\* beta, y and residuals after the statement that binds them.
C7_FrozenOnceBuilt ==
    [][ /\ XFilled => X' = X
        /\ "beta" \in bound => beta' = beta
        /\ "y" \in bound => y' = y
        /\ FitDone => BetaHatValue' = BetaHatValue
        /\ "residuals" \in bound => residuals' = residuals
        /\ ("X" \in bound /\ X' # X) => pc = "L114"
        /\ ("beta_hat" \in bound /\ BetaHatValue' # BetaHatValue) => pc = "L120" ]_vars

\* a finished run in which both in-place writes changed something: a drawn
\* feature differs from the 1 of np.ones and the intercept differs from the
\* coefficient the fit gave the constant column
C7_Witness ==
    /\ pc = "done"
    /\ D = 1
    /\ \E c \in 1..N : X[1][c] # One
    /\ BetaHatValue[D + 1] # Zero
    /\ Len(residuals) = N

\* C8: after a fit of full column rank (the constant row is always part of
\* the design matrix) the residuals sum to zero.
C8_ResidualsSumToZero ==
    pc = "done" => (SumSeq(residuals) = Zero \/ ~FullRank)

\* a finished full-rank run with a non-zero residual
C8_Witness ==
    /\ pc = "done"
    /\ FullRank
    /\ \E i \in 1..N : residuals[i] # Zero

\* C9: with N = D+1 and a design matrix of full rank every residual is
\* zero, whatever epsilon and the noise are.
C9_ExactInterpolation ==
    (pc = "done" /\ N = D + 1) =>
        ((\A i \in 1..N : residuals[i] = Zero) \/ ~FullRank)

\* a finished run with two noisy samples and one feature, of full rank
C9_Witness ==
    /\ pc = "done"
    /\ N = 2
    /\ D = 1
    /\ FullRank
    /\ epsilon # Zero
    /\ y[1] # y[2]

\* C10: when the coefficient vector's length differs from the number of
\* design-matrix rows, the product of line 116 raises numpy's shape error
\* (ValueError: shapes not aligned), the run ends there, and no response,
\* fitted model, estimated coefficients or residuals are produced.
C10_ShapeErrorStopsRun ==
    /\ ("beta" \in bound /\ Len(beta) # Len(X)) =>
        /\ pc \in {"L116", "raised"}
        /\ pc = "raised" => err = "ShapesNotAligned"
        /\ bound \cap {"y", "reg", "beta_hat", "residuals"} = {}
    /\ err = "ShapesNotAligned" =>
        /\ pc = "raised"
        /\ ~ENABLED Next
        /\ Len(beta) # Len(X)

\* a run that ended with the shape error on a valid configuration
C10_Witness ==
    /\ pc = "raised"
    /\ err = "ShapesNotAligned"
    /\ N = 3
    /\ D = 1
    /\ Len(beta) = 1

\* column i of the design matrix (sample i) dotted with the vector b
ColumnDot(i, b) == SumSeq(Array([r \in 1..Len(X) |-> RMul(X[r][i], b[r])]))

\* C11: the response vector has length N and, for every sample i, y[i] is
\* column i of the design matrix dotted with the true coefficients plus
\* epsilon times the i-th noise draw; the N noise draws come from one call
\* made after the feature draws; with epsilon = 0 the response is the
\* noiseless linear combination.
C11_ResponseVector ==
    "y" \in bound =>
        /\ Len(y) = N
        /\ Len(noise) = N
        /\ rngCalls[Len(rngCalls)] = <<"randn", N>>
        /\ \A i \in 1..N :
            /\ noise[i] \in NoiseDraws
            /\ y[i] = RAdd(ColumnDot(i, beta), RMul(epsilon, noise[i]))
            /\ epsilon = Zero => y[i] = ColumnDot(i, beta)

\* noisy responses for three samples whose noise draws differ
C11_Witness ==
    /\ "y" \in bound
    /\ N = 3
    /\ D = 1
    /\ epsilon = Rat(1, 2)
    /\ noise[1] # noise[2]
    /\ X[1][1] # X[1][3]

\* C12: the residual vector has length N and residuals[i] = y[i] -
\* fitted[i], where fitted[i] is column i of the design matrix (constant row
\* included) dotted with beta_hat: the feature entries times the estimated
\* feature coefficients plus the intercept, once.
C12_ResidualVector ==
    pc = "done" =>
        /\ Len(residuals) = N
        /\ \A i \in 1..N :
            /\ residuals[i] = RSub(y[i], ColumnDot(i, BetaHatValue))
            /\ ColumnDot(i, BetaHatValue) =
                RAdd(SumSeq(Array([r \in 1..D |-> RMul(X[r][i], BetaHatValue[r])])),
                     reg.intercept_)

\* a finished run with a non-zero intercept and a non-zero residual
C12_Witness ==
    /\ pc = "done"
    /\ N = 3
    /\ D = 1
    /\ reg.intercept_ # Zero
    /\ residuals[1] # Zero

\* C13: the estimated coefficient vector has the length of the true one,
\* D+1; its entries 0..D-1 are the feature coefficients of the fit of
\* (X.T, y) and its last entry is that fit's intercept.
C13_EstimateLayout ==
    FitDone =>
        /\ Len(BetaHatValue) = D + 1
        /\ Len(BetaHatValue) = Len(beta)
        /\ BetaHatValue[D + 1] = reg.intercept_
        /\ LET fitted == Fit(Transpose(X, N), y, D + 1)
           IN  /\ BetaHatValue[D + 1] = fitted.intercept_
               /\ \A r \in 1..D : BetaHatValue[r] = fitted.coef_[r]

\* a fitted run whose slope and intercept are both non-zero and different
C13_Witness ==
    /\ FitDone
    /\ D = 1
    /\ N = 3
    /\ BetaHatValue[1] # Zero
    /\ BetaHatValue[2] # Zero
    /\ BetaHatValue[1] # BetaHatValue[2]

\* C16: beta_hat is first bound to the array reg.coef_ refers to, so the
\* write of line 120 lands in reg.coef_ too; the copy of line 121 comes
\* after it.  The fit gives the constant column the coefficient 0; once line
\* 120 has run reg.coef_ holds the intercept there, and after the fit stage
\* reg.coef_ and beta_hat are two arrays with the same entries.
C16_CoefAliased ==
    /\ pc \in {"L119", "L120"} => CoefValue[D + 1] = Zero
    /\ pc \in {"L120", "L121"} => beta_hat = reg.coef_
    /\ pc = "L121" => CoefValue[D + 1] = reg.intercept_
    /\ FitDone =>
        /\ beta_hat # reg.coef_
        /\ Len(CoefValue) = D + 1
        /\ \A r \in 1..(D + 1) : CoefValue[r] = BetaHatValue[r]
        /\ CoefValue[D + 1] = reg.intercept_

\* a fitted run whose intercept is not the 0 the fit gave the constant
\* column, so the write through beta_hat changed reg.coef_
C16_Witness ==
    /\ pc = "done"
    /\ D = 1
    /\ reg.intercept_ # Zero
    /\ CoefValue[D + 1] = reg.intercept_

\* the stage the next statement belongs to
Stage ==
    CASE pc \in {"L110", "L113", "L114", "L115", "L116"} -> "generate"
      [] pc \in {"L118", "L119", "L120", "L121"} -> "fit"
      [] pc = "L123" -> "diagnose"
      [] OTHER -> pc

\* C15: a run with valid inputs goes through generate, fit and diagnose in
\* this order and ends only when all three have run: no statement raises;
\* the fit stage starts only with the design matrix and the
\* response vector complete; the diagnostics stage starts only with the
\* intercept already in the last entry of beta_hat.
C15_StagesRunToCompletion ==
    ("N" \in bound /\ ValidConfig) =>
        /\ pc # "raised"
        /\ Stage \in {"fit", "diagnose", "done"} =>
            /\ XFilled
            /\ "y" \in bound
            /\ Len(y) = N
            /\ rngCalls = <<<<"rand", D * N>>, <<"randn", N>>>>
        /\ Stage \in {"diagnose", "done"} =>
            /\ "beta_hat" \in bound
            /\ Len(BetaHatValue) = D + 1
            /\ BetaHatValue[D + 1] = reg.intercept_
        /\ Stage = "done" => "residuals" \in bound

\* the calls np.random has answered so far are the first ones of: D*N
\* uniform draws in one call, then N normal draws in one call
DrawsInOrder ==
    \/ rngCalls = <<>>
    \/ rngCalls = <<<<"rand", D * N>>>>
    \/ rngCalls = <<<<"rand", D * N>>, <<"randn", N>>>>

====
